---- MODULE Spec2Model ----
(***************************************************************************)
(* EmotionSense-AI voice service.  Three independent programs are modelled, *)
(* each a fresh process per invocation:                                     *)
(*   - the Hub-Model Classifier  (src/src/voice-service/                    *)
(*     huggingface_emotion.py: __main__ and classify_audio),                *)
(*   - the Custom-Model Loader/Prober (src/backend/src/voice-service/       *)
(*     test_custom_model.py: test_model),                                   *)
(*   - the CompatibleAttention layer defined inside test_model.             *)
(* A behaviour runs exactly one of them; the other two stay "idle".         *)
(* External collaborators (model hub, audio decoder, Keras loader, the      *)
(* loaded model) are the environment: whether a call into them raises, and  *)
(* the vector a forward pass returns, are nondeterministic inputs.          *)
(* Exceptions are of class Exception (what the handlers catch).             *)
(***************************************************************************)
EXTENDS Integers, Sequences, FiniteSets, TLC

VARIABLES
    \* ---- Hub-Model Classifier
    hpc,        \* position in __main__ / classify_audio
    argc,       \* number of positional arguments given (len(sys.argv) - 1)
    probs,      \* `probs` after softmax(...).squeeze().tolist()
    scores,     \* the `scores` dict being built
    exc,        \* the exception in flight, <<>> or <<message>>
    ret,        \* value returned by classify_audio, <<>> or <<dict>>
    stdout,     \* JSON objects printed to standard output
    stderr,     \* text printed to standard error
    \* ---- Loader/Prober
    ppc,        \* position in test_model
    artifact,   \* the environment: the file and what the artifact accepts
    model,      \* which load produced `model`: "none", "custom", "standard"
    shapeIdx,   \* loop index i over test_shapes (0-based)
    printed,    \* diagnostic lines printed by test_model, in order
    \* ---- CompatibleAttention
    lpc,        \* "idle", "new" (before __init__), "ready"
    layer,      \* the layer object's fields
    callIn,     \* last `inputs` given to call
    callRes,    \* what the last call computed
    config      \* last dict returned by get_config, <<>> or <<dict>>

hubVars   == <<hpc, argc, probs, scores, exc, ret, stdout, stderr>>
probeVars == <<ppc, artifact, model, shapeIdx, printed>>
layerVars == <<lpc, layer, callIn, callRes, config>>
vars      == <<hpc, argc, probs, scores, exc, ret, stdout, stderr,
               ppc, artifact, model, shapeIdx, printed,
               lpc, layer, callIn, callRes, config>>

\* ------------------------------------------------------------------ bounds
\* Output vectors longer than the label table by up to MaxExtra entries.
MaxExtra == 1
\* Probabilities are quantised to multiples of 1/ProbUnits.
ProbUnits == 12
\* Tensor dimensions (time steps, features) range over 1..MaxDim.
MaxDim == 2
\* Batch sizes range over 1..MaxBatch.
MaxBatch == 2

\* ================================================================ Hub path

LabelTable ==
    <<"angry", "calm", "disgust", "fear", "happy", "neutral", "sad", "surprise">>

id2labelSwapped ==
    [i \in 0 .. (Len(LabelTable) - 1) |->
        IF i = 0 THEN LabelTable[2] ELSE IF i = 1 THEN LabelTable[1]
        ELSE LabelTable[i + 1]]

\* id2label: keys "0".."7" (the code looks up str(i)); modelled on 0..7.
id2label == [i \in 0 .. (Len(LabelTable) - 1) |-> LabelTable[i + 1]]

NumLabels == Cardinality(DOMAIN id2label)

EmptyDict == [k \in {} |-> 0]

\* d[k] = v on a Python dict.
DictSet(d, k, v) == [x \in (DOMAIN d) \cup {k} |-> IF x = k THEN v ELSE d[x]]

\* The vectors of n positive weights that sum to total.
RECURSIVE Compositions(_, _)
Compositions(n, total) ==
    IF n = 0 THEN (IF total = 0 THEN {<<>>} ELSE {})
    ELSE UNION {{<<k>> \o c : c \in Compositions(n - 1, total - k)} :
                    k \in 1 .. (total - (n - 1))}

\* Vectors a forward pass can return: the softmax over a head of n outputs,
\* n positive probabilities that sum to 1 (in units of 1/ProbUnits), or the
\* empty vector of a head without outputs.
Vectors ==
    {<<>>} \cup
    UNION {Compositions(n, ProbUnits) : n \in 1 .. (NumLabels + MaxExtra)}

\* tensor.squeeze().tolist(): a (1, n) tensor becomes a list of n floats,
\* except that n = 1 squeezes to a 0-d tensor whose tolist() is a bare float.
Squeeze(v) == IF Len(v) = 1 THEN [kind |-> "float", val |-> v]
                            ELSE [kind |-> "list", val |-> v]

\* str(KeyError(str(i))), the message of a failed id2label[str(i)] lookup.
KeyErrorMsg(i) == "'" \o ToString(i) \o "'"

\* The loop `for i in range(len(probs)): scores[id2label[str(i)]] = probs[i]`
\* from index i on; it stops at the first key missing from id2label.
RECURSIVE ScoresFrom(_, _, _)
ScoresFrom(p, i, acc) ==
    IF i >= Len(p) THEN [ok |-> TRUE, scores |-> acc, err |-> ""]
    ELSE IF i \notin DOMAIN id2label
         THEN [ok |-> FALSE, scores |-> acc, err |-> KeyErrorMsg(i)]
         ELSE ScoresFrom(p, i + 1, DictSet(acc, id2label[i], p[i + 1]))

\* max(probs) on a non-empty list.
RECURSIVE MaxOf(_)
MaxOf(p) == IF Len(p) = 1 THEN p[1]
            ELSE LET m == MaxOf(Tail(p)) IN IF p[1] >= m THEN p[1] ELSE m

IndexOfLast(p, v) ==
    CHOOSE i \in 0 .. (Len(p) - 1) :
        p[i + 1] = v /\ \A j \in (i + 1) .. (Len(p) - 1) : p[j + 1] # v

\* probs.index(v): the 0-based position of the first element equal to v.
IndexOf(p, v) ==
    CHOOSE i \in 0 .. (Len(p) - 1) :
        p[i + 1] = v /\ \A j \in 0 .. (i - 1) : p[j + 1] # v

\* The dict returned on the success path.
SuccessResult(emotion, confidence, sc) ==
    [success |-> TRUE, emotion |-> emotion, confidence |-> confidence,
     scores |-> sc, model |-> "huggingface-prithiv"]

FailureWithDefaults(msg) ==
    [success |-> FALSE, error |-> msg, emotion |-> "neutral"]

\* The dict built by both `except Exception as e` handlers.
FailureResult(msg) == [success |-> FALSE, error |-> msg]

\* Where control goes when a statement inside try-region `region` raises:
\* the `except Exception` clause of the innermost enclosing try.
OnRaise(region) == IF region = "classify" THEN "c_except" ELSE "m_except"

Raise(msg, region) == /\ exc' = <<msg>>
                      /\ hpc' = OnRaise(region)

InitHub ==
    /\ hpc = "h_imports"
    /\ argc \in 0 .. 2
    /\ probs = Squeeze(<<>>)
    /\ scores = EmptyDict
    /\ exc = <<>>
    /\ ret = <<>>
    /\ stdout = <<>>
    /\ stderr = <<>>

IdleHub ==
    /\ hpc = "idle"
    /\ argc = 0
    /\ probs = Squeeze(<<>>)
    /\ scores = EmptyDict
    /\ exc = <<>>
    /\ ret = <<>>
    /\ stdout = <<>>
    /\ stderr = <<>>

\* from transformers import ...; import torch; import librosa: module-level
\* statements outside every try.  When one raises, the interpreter prints the
\* traceback on standard error and the process exits with nothing on
\* standard output.
HubImports ==
    /\ hpc = "h_imports"
    /\ \E ok \in BOOLEAN :
          IF ok THEN hpc' = "m_args" /\ stderr' = stderr
                ELSE hpc' = "crashed" /\ stderr' = Append(stderr, "Traceback")
    /\ UNCHANGED <<argc, probs, scores, exc, ret, stdout>>
    /\ UNCHANGED probeVars /\ UNCHANGED layerVars

\* model_name = sys.argv[1]; audio_path = sys.argv[2]
MainArgs ==
    /\ hpc = "m_args"
    /\ IF argc < 2
       THEN Raise("list index out of range", "main")
       ELSE hpc' = "c_load_model" /\ exc' = exc
    /\ UNCHANGED <<argc, probs, scores, ret, stdout, stderr>>
    /\ UNCHANGED probeVars /\ UNCHANGED layerVars

\* print("Loading model...", file=sys.stderr); Wav2Vec2...from_pretrained
ClassifyLoadModel ==
    /\ hpc = "c_load_model"
    /\ stderr' = Append(stderr, "Loading model")
    /\ \E ok \in BOOLEAN :
          IF ok THEN hpc' = "c_load_processor" /\ exc' = exc
                ELSE Raise("model fetch failed", "classify")
    /\ UNCHANGED <<argc, probs, scores, ret, stdout>>
    /\ UNCHANGED probeVars /\ UNCHANGED layerVars

\* Wav2Vec2FeatureExtractor.from_pretrained(model_name)
ClassifyLoadProcessor ==
    /\ hpc = "c_load_processor"
    /\ \E ok \in BOOLEAN :
          IF ok THEN hpc' = "c_audio" /\ exc' = exc
                ELSE Raise("feature extractor fetch failed", "classify")
    /\ UNCHANGED <<argc, probs, scores, ret, stdout, stderr>>
    /\ UNCHANGED probeVars /\ UNCHANGED layerVars

\* librosa.load(audio_path, sr=16000)
ClassifyLoadAudio ==
    /\ hpc = "c_audio"
    /\ \E ok \in BOOLEAN :
          IF ok THEN hpc' = "c_features" /\ exc' = exc
                ELSE Raise("audio decode failed", "classify")
    /\ UNCHANGED <<argc, probs, scores, ret, stdout, stderr>>
    /\ UNCHANGED probeVars /\ UNCHANGED layerVars

\* processor(speech, sampling_rate=..., return_tensors="pt", padding=True)
ClassifyFeatures ==
    /\ hpc = "c_features"
    /\ \E ok \in BOOLEAN :
          IF ok THEN hpc' = "c_forward" /\ exc' = exc
                ELSE Raise("feature extraction failed", "classify")
    /\ UNCHANGED <<argc, probs, scores, ret, stdout, stderr>>
    /\ UNCHANGED probeVars /\ UNCHANGED layerVars

\* with torch.no_grad(): model(**inputs); softmax(logits).squeeze().tolist()
ClassifyForward ==
    /\ hpc = "c_forward"
    /\ \/ /\ Raise("forward pass failed", "classify")
          /\ probs' = probs
       \/ \E v \in Vectors :
             /\ probs' = Squeeze(v)
             /\ hpc' = "c_scores"
             /\ exc' = exc
    /\ UNCHANGED <<argc, scores, ret, stdout, stderr>>
    /\ UNCHANGED probeVars /\ UNCHANGED layerVars

\* scores = {}; for i in range(len(probs)): ...
ClassifyScores ==
    /\ hpc = "c_scores"
    /\ IF probs.kind = "float"
       THEN /\ Raise("object of type 'float' has no len()", "classify")
            /\ scores' = EmptyDict
       ELSE LET r == ScoresFrom(probs.val, 0, EmptyDict) IN
            /\ scores' = r.scores
            /\ IF r.ok THEN hpc' = "c_dominant" /\ exc' = exc
                       ELSE Raise(r.err, "classify")
    /\ UNCHANGED <<argc, probs, ret, stdout, stderr>>
    /\ UNCHANGED probeVars /\ UNCHANGED layerVars

\* dominant_idx = probs.index(max(probs)); ...; return {...}
ClassifyDominant ==
    /\ hpc = "c_dominant"
    /\ IF Len(probs.val) = 0
       THEN /\ Raise("max() arg is an empty sequence", "classify")
            /\ ret' = ret
       ELSE LET confidence   == MaxOf(probs.val)
                dominant_idx == IndexOf(probs.val, confidence)
            IN  /\ ret' = <<SuccessResult(id2label[dominant_idx],
                                          confidence, scores)>>
                /\ hpc' = "m_print"
                /\ exc' = exc
    /\ UNCHANGED <<argc, probs, scores, stdout, stderr>>
    /\ UNCHANGED probeVars /\ UNCHANGED layerVars

\* except Exception as e: return {"success": False, "error": str(e)}
ClassifyExcept ==
    /\ hpc = "c_except"
    /\ ret' = <<FailureResult(exc[1])>>
    /\ hpc' = "m_print"
    /\ UNCHANGED <<argc, probs, scores, exc, stdout, stderr>>
    /\ UNCHANGED probeVars /\ UNCHANGED layerVars

\* print(json.dumps(result))
MainPrint ==
    /\ hpc = "m_print"
    /\ stdout' = Append(stdout, ret[1])
    /\ hpc' = "done"
    /\ UNCHANGED <<argc, probs, scores, exc, ret, stderr>>
    /\ UNCHANGED probeVars /\ UNCHANGED layerVars

\* except Exception as e: print(json.dumps({"success": False, "error": str(e)}))
MainExcept ==
    /\ hpc = "m_except"
    /\ stdout' = Append(stdout, FailureResult(exc[1]))
    /\ hpc' = "done"
    /\ UNCHANGED <<argc, probs, scores, exc, ret, stderr>>
    /\ UNCHANGED probeVars /\ UNCHANGED layerVars


\* ============================================================ Loader/Prober

\* test_shapes: (batch, mfcc, time) then (batch, time, mfcc).
test_shapes == << <<1, 40, 174>>, <<1, 174, 40>> >>

Methods == {"direct", "predict"}

ShapeSet == {test_shapes[k] : k \in 1 .. Len(test_shapes)}

\* How one try body of the probe ends: the call returns and its output is
\* reported ("ok", the body reaches `break`); the call itself raises
\* ("call_raises"); or the call returns, the "succeeded" line is printed, and
\* one of the prints of the output's shape and sample raises
\* ("report_raises").
Outcomes == {"ok", "call_raises", "report_raises"}

\* What the environment decides about the artifact at model_path: whether
\* the file exists, whether each load_model call returns or raises, and how
\* the try body of each (shape, method) ends.  os.path.getsize on the file
\* just found and np.random.randn on the fixed shapes are taken to return.
Artifacts ==
    [exists        : BOOLEAN,
     loadsCustom   : BOOLEAN,
     loadsStandard : BOOLEAN,
     accepts       : [ShapeSet \X Methods -> Outcomes]]

\* One printed diagnostic line.
Line(tag, shape, err) == [tag |-> tag, shape |-> shape, err |-> err]

Say(tag) == Line(tag, <<>>, "")

HasLine(tag) == \E k \in 1 .. Len(printed) : printed[k].tag = tag

AlwaysFound == TRUE

\* os.path.exists(model_path)
ArtifactFound == artifact.exists

RetryAlways(ok) == "p_load_standard"

\* load with custom_objects: on success fall through to the summary, on
\* any exception enter the handler that tries the standard load.
AfterCustomLoad(ok) == IF ok THEN "p_summary" ELSE "p_load_standard"

\* The cause printed when the load with custom objects fails: str(e).
CustomLoadCause == "custom load failed"

\* The cause printed when the standard load fails too: str(e2).
LoadFailedCause == "standard load failed"

\* model(dummy_input): `break` on success, else go on to predict().
AfterDirect(ok) == IF ok THEN "p_finish" ELSE "p_predict"

\* model.predict(dummy_input): `break` on success, else the next shape of
\* the for loop, or the end of the loop after the last one.
AfterPredict(ok, i) ==
    IF ok THEN "p_finish"
    ELSE IF i + 1 < Len(test_shapes) THEN "p_direct" ELSE "p_finish"

InitProbe ==
    /\ ppc = "p_imports"
    /\ artifact \in Artifacts
    /\ model = "none"
    /\ shapeIdx = 0
    /\ printed = <<>>

IdleProbe ==
    /\ ppc = "idle"
    /\ artifact = [exists |-> FALSE, loadsCustom |-> FALSE,
                   loadsStandard |-> FALSE,
                   accepts |-> [c \in ShapeSet \X Methods |-> "call_raises"]]
    /\ model = "none"
    /\ shapeIdx = 0
    /\ printed = <<>>

\* import sys, os, numpy: module-level statements outside the try of
\* test_model; when one raises the process exits with a traceback.
ProbeImports ==
    /\ ppc = "p_imports"
    /\ \E ok \in BOOLEAN : ppc' = IF ok THEN "p_tf" ELSE "crashed"
    /\ UNCHANGED <<artifact, model, shapeIdx, printed>>
    /\ UNCHANGED hubVars /\ UNCHANGED layerVars

\* 1. import tensorflow as tf; a failure reaches the outer handler, which
\*    prints "Test failed" and the traceback.
ProbeImportTF ==
    /\ ppc = "p_tf"
    /\ \E ok \in BOOLEAN :
          IF ok THEN /\ printed' = Append(printed, Say("tf_ok"))
                     /\ ppc' = "p_file"
                ELSE /\ printed' = Append(printed,
                             Line("test_failed", <<>>, "import failed"))
                     /\ ppc' = "done"
    /\ UNCHANGED <<artifact, model, shapeIdx>>
    /\ UNCHANGED hubVars /\ UNCHANGED layerVars

\* 2. if os.path.exists(model_path): ... else: print not found; return
ProbeCheckFile ==
    /\ ppc = "p_file"
    /\ IF ArtifactFound
       THEN /\ printed' = Append(printed, Say("file_found"))
            /\ ppc' = "p_keras"
       ELSE /\ printed' = Append(printed, Say("file_not_found"))
            /\ ppc' = "done"
    /\ UNCHANGED <<artifact, model, shapeIdx>>
    /\ UNCHANGED hubVars /\ UNCHANGED layerVars

\* 3. print("Attempting to load model"); from tensorflow import keras; from tensorflow.keras.layers import
\*    Layer; class CompatibleAttention.  A failure reaches the outer handler.
ProbeImportKeras ==
    /\ ppc = "p_keras"
    /\ \E ok \in BOOLEAN :
          IF ok THEN /\ printed' = Append(printed, Say("loading"))
                     /\ ppc' = "p_load_custom"
                ELSE /\ printed' = printed \o
                           << Say("loading"),
                              Line("test_failed", <<>>, "import failed") >>
                     /\ ppc' = "done"
    /\ UNCHANGED <<artifact, model, shapeIdx>>
    /\ UNCHANGED hubVars /\ UNCHANGED layerVars

\*    load_model(model_path, custom_objects={'Attention': ...})
ProbeLoadCustom ==
    /\ ppc = "p_load_custom"
    /\ IF artifact.loadsCustom
       THEN /\ model' = "custom"
            /\ printed' = Append(printed, Say("loaded_custom"))
       ELSE /\ model' = model
            /\ printed' = Append(printed,
                    Line("custom_load_failed", <<>>, CustomLoadCause))
    /\ ppc' = AfterCustomLoad(artifact.loadsCustom)
    /\ UNCHANGED <<artifact, shapeIdx>>
    /\ UNCHANGED hubVars /\ UNCHANGED layerVars

\* except: load_model(model_path, compile=False); except: print; return
ProbeLoadStandard ==
    /\ ppc = "p_load_standard"
    /\ IF artifact.loadsStandard
       THEN /\ model' = "standard"
            /\ printed' = Append(printed, Say("loaded_standard"))
            /\ ppc' = "p_summary"
       ELSE /\ model' = model
            /\ printed' = Append(printed,
                    Line("standard_load_failed", <<>>, LoadFailedCause))
            /\ ppc' = "done"
    /\ UNCHANGED <<artifact, shapeIdx>>
    /\ UNCHANGED hubVars /\ UNCHANGED layerVars

\* 4. model.summary(), a call into the loaded model inside the outer try:
\*    when it raises the outer handler prints "Test failed" and the run ends;
\*    otherwise 5. the for loop over test_shapes starts.
ProbeSummary ==
    /\ ppc = "p_summary"
    /\ \E ok \in BOOLEAN :
          IF ok THEN /\ printed' = Append(printed, Say("summary"))
                     /\ ppc' = "p_direct"
                ELSE /\ printed' = printed \o
                           << Say("summary"),
                              Line("test_failed", <<>>, "summary raised") >>
                     /\ ppc' = "done"
    /\ shapeIdx' = 0
    /\ UNCHANGED <<artifact, model>>
    /\ UNCHANGED hubVars /\ UNCHANGED layerVars

\* The lines one try body prints: the "succeeded" line once the call has
\* returned, the "failed" line of its handler when the call or a later print
\* of the body raises.
BodyLines(method, shape, outcome) ==
    (IF outcome = "call_raises" THEN <<>>
     ELSE << Line(method \o "_ok", shape, "") >>)
    \o
    (IF outcome = "ok" THEN <<>>
     ELSE << Line(method \o "_failed", shape,
                  IF outcome = "call_raises" THEN method \o " call raised"
                                             ELSE "output report raised") >>)

\* print("Testing shape"); dummy_input = ...;
\* try: model(dummy_input).numpy(); print succeeded, shape, sample; break
\* except Exception as e1: print failed
ProbeDirect ==
    /\ ppc = "p_direct"
    /\ LET shape   == test_shapes[shapeIdx + 1]
           outcome == artifact.accepts[<<shape, "direct">>]
       IN  /\ printed' = printed \o << Line("testing_shape", shape, "") >>
                                 \o BodyLines("direct", shape, outcome)
           /\ ppc' = AfterDirect(outcome = "ok")
    /\ UNCHANGED <<artifact, model, shapeIdx>>
    /\ UNCHANGED hubVars /\ UNCHANGED layerVars

\* try: model.predict(dummy_input); print succeeded, shape, sample; break
\* except Exception as e2: print failed
ProbePredict ==
    /\ ppc = "p_predict"
    /\ LET shape   == test_shapes[shapeIdx + 1]
           outcome == artifact.accepts[<<shape, "predict">>]
           next    == AfterPredict(outcome = "ok", shapeIdx)
       IN  /\ printed' = printed \o BodyLines("predict", shape, outcome)
           /\ ppc' = next
           /\ shapeIdx' = IF next = "p_direct" THEN shapeIdx + 1 ELSE shapeIdx
    /\ UNCHANGED <<artifact, model>>
    /\ UNCHANGED hubVars /\ UNCHANGED layerVars

\* after the loop: print("Model test completed")
ProbeFinish ==
    /\ ppc = "p_finish"
    /\ printed' = Append(printed, Say("completed"))
    /\ ppc' = "done"
    /\ UNCHANGED <<artifact, model, shapeIdx>>
    /\ UNCHANGED hubVars /\ UNCHANGED layerVars

\* ====================================================== CompatibleAttention

ScoreModes == {"dot", "concat"}

\* Shapes of rank-3 tensors (batch, timesteps, features).
Shapes3 == (1 .. MaxBatch) \X (1 .. MaxDim) \X (1 .. MaxDim)

\* `inputs` of call: one tensor, or the list [query, value].
CallInputs ==
    [form : {"single"}, tensors : {<<s>> : s \in Shapes3}]
    \cup [form : {"list"}, tensors : Shapes3 \X Shapes3]

NoTensor == [ok |-> FALSE, shape |-> <<>>]

Tensor(shape) == [ok |-> TRUE, shape |-> shape]

\* Shape of tf.matmul(a, b, transpose_b=tb) on rank-3 operands: the inner
\* dimensions must agree and the batch dimensions must be equal or 1.
MatMul(a, b, tb) ==
    LET rowsB == IF tb THEN b[3] ELSE b[2]
        colsB == IF tb THEN b[2] ELSE b[3]
    IN  IF a[3] = rowsB /\ (a[1] = b[1] \/ a[1] = 1 \/ b[1] = 1)
        THEN Tensor(<<IF a[1] >= b[1] THEN a[1] ELSE b[1], a[2], colsB>>)
        ELSE NoTensor

ScoresUntransposed(query, value) == MatMul(query, value, FALSE)

\* scores = tf.matmul(query, value, transpose_b=True); dividing by sqrt(d_k),
\* multiplying by the scalar scale and the softmax over the last axis keep
\* the shape.
AttentionScores(query, value) == MatMul(query, value, TRUE)

\* call(inputs): the shapes of scores and of the output.
Call(inputs) ==
    LET query == inputs.tensors[1]
        value == IF inputs.form = "list" THEN inputs.tensors[2]
                                         ELSE inputs.tensors[1]
        sc    == AttentionScores(query, value)
        out   == IF sc.ok THEN MatMul(sc.shape, value, FALSE) ELSE NoTensor
    IN  [ok |-> out.ok, scores |-> sc.shape, output |-> out.shape]

NoCall == [ok |-> FALSE, scores |-> <<>>, output |-> <<>>]

ScaleWeight ==
    [name |-> "scale", shape |-> <<>>, value |-> 1, trainable |-> TRUE]

WeightsAlwaysScaled(use_scale) == <<ScaleWeight>>

\* The weights build() adds: self.add_weight(name='scale', shape=(),
\* initializer='ones', trainable=True) only if self.use_scale.
BuildWeights(use_scale) == IF use_scale THEN <<ScaleWeight>> ELSE <<>>

NewLayer ==
    [use_scale |-> FALSE, score_mode |-> "dot", supports_masking |-> FALSE,
     built |-> FALSE, weights |-> <<>>]

InitLayer ==
    /\ lpc = "new"
    /\ layer = NewLayer
    /\ callIn = [form |-> "single", tensors |-> <<>>]
    /\ callRes = NoCall
    /\ config = <<>>

IdleLayer ==
    /\ lpc = "idle"
    /\ layer = NewLayer
    /\ callIn = [form |-> "single", tensors |-> <<>>]
    /\ callRes = NoCall
    /\ config = <<>>

\* __init__(self, use_scale=False, score_mode='dot', **kwargs)
LayerInit ==
    /\ lpc = "new"
    /\ \E us \in BOOLEAN, sm \in ScoreModes :
          layer' = [use_scale |-> us, score_mode |-> sm,
                    supports_masking |-> TRUE, built |-> FALSE,
                    weights |-> <<>>]
    /\ lpc' = "ready"
    /\ UNCHANGED <<callIn, callRes, config>>
    /\ UNCHANGED hubVars /\ UNCHANGED probeVars

\* build(self, input_shape); Keras builds a layer once, before its first call.
LayerBuild ==
    /\ lpc = "ready"
    /\ ~layer.built
    /\ layer' = [layer EXCEPT
                   !.weights = layer.weights \o BuildWeights(layer.use_scale),
                   !.built = TRUE]
    /\ UNCHANGED <<lpc, callIn, callRes, config>>
    /\ UNCHANGED hubVars /\ UNCHANGED probeVars

\* call(self, inputs, mask=None) on a built layer
LayerCall ==
    /\ lpc = "ready"
    /\ layer.built
    /\ \E inputs \in CallInputs :
          /\ callIn' = inputs
          /\ callRes' = Call(inputs)
    /\ UNCHANGED <<lpc, layer, config>>
    /\ UNCHANGED hubVars /\ UNCHANGED probeVars

\* get_config(self)
LayerGetConfig ==
    /\ lpc = "ready"
    /\ config' = <<[use_scale |-> layer.use_scale,
                    score_mode |-> layer.score_mode]>>
    /\ UNCHANGED <<lpc, layer, callIn, callRes>>
    /\ UNCHANGED hubVars /\ UNCHANGED probeVars

\* ============================================================ specification

\* One process per invocation: exactly one of the three programs runs.
Init ==
    \/ InitHub /\ IdleProbe /\ IdleLayer
    \/ IdleHub /\ InitProbe /\ IdleLayer
    \/ IdleHub /\ IdleProbe /\ InitLayer

Next ==
    \/ HubImports
    \/ MainArgs
    \/ ClassifyLoadModel
    \/ ClassifyLoadProcessor
    \/ ClassifyLoadAudio
    \/ ClassifyFeatures
    \/ ClassifyForward
    \/ ClassifyScores
    \/ ClassifyDominant
    \/ ClassifyExcept
    \/ MainPrint
    \/ MainExcept
    \/ ProbeImports
    \/ ProbeImportTF
    \/ ProbeCheckFile
    \/ ProbeImportKeras
    \/ ProbeLoadCustom
    \/ ProbeLoadStandard
    \/ ProbeSummary
    \/ ProbeDirect
    \/ ProbePredict
    \/ ProbeFinish
    \/ LayerInit
    \/ LayerBuild
    \/ LayerCall
    \/ LayerGetConfig

Spec == Init /\ [][Next]_vars

\* ================================================================== claims

ResultFields == {"emotion", "confidence", "scores"}

WellFormed(r) ==
    IF r.success
    THEN ResultFields \subseteq DOMAIN r /\ "error" \notin DOMAIN r
    ELSE "error" \in DOMAIN r /\ ResultFields \cap DOMAIN r = {}

\* C1: every result returned by classify_audio or printed by the entry point
\* has one of the two forms: success with emotion, confidence and scores and
\* no error, or failure with error and none of the three.
C1_ResultInvariant ==
    /\ \A k \in 1 .. Len(ret) : WellFormed(ret[k])
    /\ \A k \in 1 .. Len(stdout) : WellFormed(stdout[k])

C1_Witness ==
    /\ hpc = "done"
    /\ Len(ret) = 1 /\ ret[1].success
    /\ stdout = ret

\* C2: for every invocation, whichever step raises or none, the run never
\* ends in an uncaught exception, it can always go on until it is done, it
\* has then printed exactly one result object on standard output, which is
\* {success: false, error: <message of the exception>} if anything was
\* raised, and standard error holds only the progress text.
C2_AlwaysOneResult ==
    /\ hpc # "crashed"
    /\ hpc \notin {"idle", "done"} => ENABLED Next
    /\ hpc \notin {"idle", "done"} => stdout = <<>>
    /\ hpc = "done" => Len(stdout) = 1
    /\ hpc = "done" /\ exc # <<>> =>
           stdout[1] = [success |-> FALSE, error |-> exc[1]]
    /\ hpc = "done" /\ exc = <<>> => stdout[1].success
    /\ \A k \in 1 .. Len(stderr) : stderr[k] = "Loading model"

\* C3: for a probability vector of length 8 the reported emotion is the
\* label at the lowest index holding the maximum and confidence is that
\* maximum.
C3_DominantIsFirstMax ==
    \A k \in 1 .. Len(ret) :
        ret[k].success /\ Len(probs.val) = 8 =>
            \E i \in 0 .. 7 :
                /\ ret[k].emotion = LabelTable[i + 1]
                /\ ret[k].confidence = probs.val[i + 1]
                /\ \A j \in 0 .. 7 : probs.val[j + 1] <= ret[k].confidence
                /\ \A j \in 0 .. (i - 1) : probs.val[j + 1] < ret[k].confidence

\* the maximum sits at index 4 and again at index 7: "happy" is reported
C3_Witness ==
    /\ hpc = "done"
    /\ probs.val = <<1, 1, 1, 1, 3, 1, 1, 3>>
    /\ stdout[1].success
    /\ stdout[1].emotion = "happy"
    /\ stdout[1].confidence = 3

AllLabels == {LabelTable[k] : k \in 1 .. Len(LabelTable)}

\* C4 as stated: every success result's scores holds all 8 labels, the label
\* at index i mapped to the probability at position i, whatever the length
\* of the output vector.
C4_ScoresHoldAllLabels ==
    \A k \in 1 .. Len(ret) :
        ret[k].success =>
            /\ DOMAIN ret[k].scores = AllLabels
            /\ \A i \in 0 .. (Len(probs.val) - 1) :
                   ret[k].scores[LabelTable[i + 1]] = probs.val[i + 1]

\* C4 amended: a success result arises for an output vector of length n with
\* 2 <= n <= 8; its scores holds exactly the labels at indices 0..n-1, the
\* label at index i mapped to the probability at position i, so it holds all
\* 8 labels exactly when n = 8.
C4_ScoresHoldFirstLabels ==
    \A k \in 1 .. Len(ret) :
        ret[k].success =>
            LET n == Len(probs.val) IN
            /\ probs.kind = "list"
            /\ n \in 2 .. 8
            /\ DOMAIN ret[k].scores = {LabelTable[i + 1] : i \in 0 .. (n - 1)}
            /\ \A i \in 0 .. (n - 1) :
                   ret[k].scores[LabelTable[i + 1]] = probs.val[i + 1]
            /\ (DOMAIN ret[k].scores = AllLabels) <=> (n = 8)

\* a head of 3 outputs: a success result with 3 of the 8 labels
C4_Witness ==
    /\ hpc = "done"
    /\ probs.val = <<3, 6, 3>>
    /\ stdout[1].success
    /\ DOMAIN stdout[1].scores = {"angry", "calm", "disgust"}
    /\ stdout[1].scores["calm"] = 6

AttemptTags == {"direct_ok", "direct_failed", "predict_ok", "predict_failed"}

LoadTags == {"loaded_custom", "custom_load_failed",
             "loaded_standard", "standard_load_failed"}

IsLoad(l) == l.tag \in LoadTags

\* printed[k] is the handler's "failed" line of a try body whose "succeeded"
\* line was printed just before it.
IsEcho(k) ==
    /\ k > 1
    /\ \/ printed[k].tag = "direct_failed" /\ printed[k - 1].tag = "direct_ok"
       \/ printed[k].tag = "predict_failed" /\ printed[k - 1].tag = "predict_ok"

StartsAttempt(k) == printed[k].tag \in AttemptTags /\ ~IsEcho(k)

Returned(k) == printed[k].tag \in {"direct_ok", "predict_ok"}

\* The positions in printed of the first line of each model()/predict()
\* call made so far, in order: a call that returned starts with its
\* "succeeded" line, a call that raised with its "failed" line.
AttemptAt == SelectSeq([k \in 1 .. Len(printed) |-> k], StartsAttempt)

NumAttempts == Len(AttemptAt)

\* The load attempts made so far, in order.
Loads == SelectSeq(printed, IsLoad)

AttemptCombo(l) ==
    <<l.shape, IF l.tag \in {"direct_ok", "direct_failed"} THEN "direct"
                                                           ELSE "predict">>

ProbeOrder ==
    << << <<1, 40, 174>>, "direct" >>, << <<1, 40, 174>>, "predict" >>,
       << <<1, 174, 40>>, "direct" >>, << <<1, 174, 40>>, "predict" >> >>

\* C5 as stated: the k-th call of the probe is the k-th combination of the
\* fixed order; a combination is attempted only if every earlier call raised
\* (nothing is attempted after a call that succeeded); and a probe that ran
\* to its end ended on a success or after all four.
C5_ProbeOrder ==
    /\ NumAttempts <= 4
    /\ \A k \in 1 .. NumAttempts :
           AttemptCombo(printed[AttemptAt[k]]) = ProbeOrder[k]
    /\ \A k \in 1 .. (NumAttempts - 1) : ~Returned(AttemptAt[k])
    /\ HasLine("completed") =>
           /\ NumAttempts >= 1
           /\ Returned(AttemptAt[NumAttempts]) \/ NumAttempts = 4

ProbeEnded == ppc \in {"done", "crashed"}

\* C6 as stated: given an artifact path that does not exist, no load and no
\* probe is ever attempted and the run ends reporting that the file was not
\* found.
C6_NotFoundReported ==
    ~artifact.exists =>
        /\ model = "none"
        /\ Loads = <<>>
        /\ NumAttempts = 0
        /\ ~HasLine("file_found") /\ ~HasLine("testing_shape")
        /\ ProbeEnded =>
               /\ printed # <<>>
               /\ printed[Len(printed)].tag = "file_not_found"

\* C6 amended: given an artifact path that does not exist, no load and no
\* probe is ever attempted, and the run ends reporting that the file was not
\* found, unless an import made before the existence check fails: a failed
\* numpy import ends the process with nothing printed, a failed TensorFlow
\* import ends the run in the outer handler ("Test failed").
C6_MissingArtifact ==
    ~artifact.exists =>
        /\ model = "none"
        /\ Loads = <<>>
        /\ NumAttempts = 0
        /\ ~HasLine("file_found") /\ ~HasLine("testing_shape")
        /\ ppc \in {"idle", "p_imports", "crashed", "p_tf", "p_file", "done"}
        /\ ppc = "crashed" => printed = <<>>
        /\ ppc = "done" =>
               IF HasLine("tf_ok")
               THEN printed[Len(printed)].tag = "file_not_found"
               ELSE printed = << [tag |-> "test_failed", shape |-> <<>>,
                                  err |-> "import failed"] >>

C6_Witness ==
    /\ ppc = "done"
    /\ ~artifact.exists
    /\ printed[Len(printed)].tag = "file_not_found"

AfterLoading == {"p_summary", "p_direct", "p_predict", "p_finish"}

LoadSucceeded == artifact.loadsCustom \/ artifact.loadsStandard

\* The part of C7 about the two loads: the load with the substitution comes
\* first; the load without it is attempted iff the first raised; if both
\* raise, the run ends reporting the second attempt's cause and probes
\* nothing; the model kept, and probed, is that of the first load that
\* succeeded.
LoadOrder ==
    /\ Len(Loads) <= 2
    /\ Len(Loads) >= 1 =>
           Loads[1].tag \in {"loaded_custom", "custom_load_failed"}
    /\ Len(Loads) = 2 =>
           Loads[2].tag \in {"loaded_standard", "standard_load_failed"}
    /\ ppc \in AfterLoading \/ (ppc = "done" /\ Loads # <<>>) =>
           (Len(Loads) = 2 <=> HasLine("custom_load_failed"))
    /\ HasLine("standard_load_failed") =>
           /\ ppc = "done"
           /\ printed[Len(printed)] =
                  [tag |-> "standard_load_failed", shape |-> <<>>,
                   err |-> "standard load failed"]
           /\ NumAttempts = 0
           /\ model = "none"
    /\ ppc \in AfterLoading \/ NumAttempts > 0 =>
           /\ LoadSucceeded
           /\ model = IF artifact.loadsCustom THEN "custom" ELSE "standard"

\* C7 as stated: LoadOrder, and whenever one of the loads succeeded the
\* finished run has probed the model.
C7_ProbeAfterEveryLoad ==
    /\ LoadOrder
    /\ ppc = "done" /\ Loads # <<>> /\ LoadSucceeded => NumAttempts > 0

\* C7 amended: LoadOrder, and whenever one of the loads succeeded the
\* finished run has probed the model, unless model.summary() raised, in which
\* case it ended in the outer handler ("Test failed") without any probe.
C7_LoadFallback ==
    /\ LoadOrder
    /\ ppc = "done" /\ Loads # <<>> /\ LoadSucceeded =>
           IF HasLine("test_failed")
           THEN /\ NumAttempts = 0
                /\ printed[Len(printed)].err = "summary raised"
           ELSE NumAttempts > 0

C7_Witness ==
    /\ ppc = "done"
    /\ HasLine("custom_load_failed")
    /\ HasLine("loaded_standard")
    /\ model = "standard"
    /\ NumAttempts > 0

\* C8 as stated: when the probe ran and none of the four calls succeeded,
\* all four were attempted and the run does not end in the completed
\* outcome.
C8_InferenceFailedReported ==
    ppc = "done" /\ HasLine("testing_shape")
        /\ (\A k \in 1 .. 4 : artifact.accepts[ProbeOrder[k]] = "call_raises") =>
            /\ NumAttempts = 4
            /\ printed[Len(printed)].tag # "completed"

\* C9: a built layer holds the weight `scale` (a trainable scalar, initially
\* 1) iff use_scale, and no other weight, however often it has been evaluated
\* or its configuration serialized since.
C9_ScaleIffUseScale ==
    lpc = "ready" /\ layer.built =>
        IF layer.use_scale
        THEN layer.weights = <<[name |-> "scale", shape |-> <<>>,
                                value |-> 1, trainable |-> TRUE]>>
        ELSE layer.weights = <<>>

C9_Witness ==
    /\ layer.built
    /\ layer.use_scale
    /\ Len(layer.weights) = 1
    /\ callRes.ok
    /\ config # <<>>

SelfAttention(inputs) ==
    /\ inputs.tensors # <<>>
    /\ inputs.form = "list" => inputs.tensors[1] = inputs.tensors[2]

\* C10: called on one tensor of shape (batch, T, F), or on the pair
\* [query, value] with both that tensor, the layer returns a tensor of the
\* input's shape, with scores of shape (batch, T, T).
C10_OutputShapeIsInputShape ==
    SelfAttention(callIn) =>
        LET x == callIn.tensors[1] IN
        /\ callRes.ok
        /\ callRes.output = x
        /\ callRes.scores = <<x[1], x[2], x[2]>>

C10_Witness ==
    /\ callIn.form = "list"
    /\ callIn.tensors = << <<2, 1, 2>>, <<2, 1, 2>> >>
    /\ callRes.ok
    /\ callRes.output = <<2, 1, 2>>

====
